---- MODULE Spec2Model ----
(***************************************************************************)
(* A model of observation.cpp (gnss-data-processing):                      *)
(*   - ObservationData::ObservationData, the reader of an observation file *)
(*     (specification SpecParse);                                          *)
(*   - ObservationRecord::computeReceiverPosition, the iterative weighted  *)
(*     least-squares position solver (specification Spec: one call;        *)
(*     specification SpecRerun: a call and a second call on its result).   *)
(*                                                                         *)
(* The code of the repository that is not in observation.cpp (the          *)
(* ephemeris lookup, the satellite state model, the coordinate frames) and *)
(* the linear algebra library are inputs of the model: every value they    *)
(* return is drawn from a small set, so that what is checked holds         *)
(* whatever they compute.                                                  *)
(***************************************************************************)
EXTENDS Integers, Sequences, FiniteSets, TLC

(***************************************************************************)
(* PART 1.  ObservationData::ObservationData (observation.cpp 6-73)        *)
(***************************************************************************)

\* ---- bounds of the explored inputs ----
\* The longest input file, in lines.
MaxLines == 4

\* ---- an input line ----
\* A line is modelled by what the constructor reads of it:
\*   head   its first characters (at most 3), as a sequence of characters
\*   len    its length in characters
\*   label  the text at column offset 60 (header section lines)
\*   cnt    the integer atoi finds at column offset 32 (width 3)
Blank == [head |-> <<>>, len |-> 0, label |-> "", cnt |-> 0]

EndOfHeader == [head |-> <<" ", " ", " ">>, len |-> 80, label |-> "END OF HEADER", cnt |-> 0]

ApproxLine == [head |-> <<" ", " ", "1">>, len |-> 80, label |-> "APPROX POSITION XYZ", cnt |-> 0]

EpochLine(n) == [head |-> <<">", " ", "2">>, len |-> 80, label |-> "", cnt |-> n]

\* A satellite line of the supported system, complete (81 columns).
GpsLine == [head |-> <<"G", "0", "7">>, len |-> 81, label |-> "", cnt |-> 0]

\* A satellite line of the supported system cut short after two characters.
GpsShort == [head |-> <<"G", "0">>, len |-> 2, label |-> "", cnt |-> 0]

\* A satellite line of another system.
OtherLine == [head |-> <<"R", "1", "2">>, len |-> 81, label |-> "", cnt |-> 0]

\* The satellite counts an epoch header may declare (atoi accepts a sign).
CountSet == {-1, 1, 2, 3}

LineSet == {Blank, EndOfHeader, ApproxLine, GpsLine, GpsShort, OtherLine}
             \cup {EpochLine(n) : n \in CountSet}

\* The input files: at most MaxLines lines; term tells whether the last line
\* ends with a newline.  A file whose last line is empty and has no newline
\* is the file without that line.
FileSet ==
  { f \in [lines : UNION {[1..n -> LineSet] : n \in 0..MaxLines}, term : BOOLEAN] :
      /\ (Len(f.lines) = 0 => f.term)
      /\ (~f.term => f.lines[Len(f.lines)].len > 0) }

\* How the constructor was called: with the path of an observation file that
\* opens, with a path of another type, or with a path that does not open.
PathSet == {"obs", "other", "unreadable"}

VARIABLES
  \* ---- the reader ----
  path,                \* the kind of filePath
  file,                \* the input file
  pos,                 \* the stream position: the next line to extract
  eofbit, failbit,     \* the stream's state bits
  line,                \* the line buffer: [txt |-> a line, no |-> its number]
  ppc,                 \* where the constructor is
  infoLines,           \* _header._infoLines (the numbers of the lines kept)
  approxPosition,      \* the line _header._approxPosition was read from, or 0
  record,              \* the record under construction
  i,                   \* the satellite-line counter of the for loop
  observationRecords,  \* _observationRecords
  \* ---- the solver: the inputs of a call ----
  rec,                 \* the epoch record: one entry per satellite of _listSatPRN
  approxRecCoord,      \* the approximate coordinate of the call
  run,                 \* 1: the first call; 2: the call that starts from its result
  firstRun,            \* run 2: the position and clock offset run 1 ended with
  \* ---- the solver: the locals of computeReceiverPosition ----
  pc,                  \* where the call is
  recCoord, recClockError,
  itrAdjust, satIndex, countDisposed,
  designMat, observableVec, weightVec,
  estimatedTimeDelay, satTimeF, satTimePrev, itrTime,
  satRange,            \* |satCoord - recCoord| for the satCoord of line 126
  satElevation,
  solution,
  result,              \* what the call returned: Null, or the coordinates
  \* ---- the solver: what happened in the current pass, per satellite ----
  verdict,
  passStart            \* recCoord and recClockError when the pass began

parserVars == <<path, file, pos, eofbit, failbit, line, ppc, infoLines,
                approxPosition, record, i, observationRecords>>

solverVars == <<rec, approxRecCoord, run, firstRun, pc, recCoord, recClockError,
                itrAdjust, satIndex, countDisposed, designMat, observableVec,
                weightVec, estimatedTimeDelay, satTimeF, satTimePrev, itrTime,
                satRange, satElevation, solution, result, verdict, passStart>>

vars == <<parserVars, solverVars>>

\* The solver's variables while the reader runs: no call is under way.
SolverIdle ==
  /\ rec = <<>>
  /\ approxRecCoord = <<0, 0, 0>>
  /\ run = 0
  /\ firstRun = [coord |-> <<0, 0, 0>>, clock |-> 0]
  /\ pc = "idle"
  /\ recCoord = <<0, 0, 0>>
  /\ recClockError = 0
  /\ itrAdjust = 0
  /\ satIndex = 0
  /\ countDisposed = 0
  /\ designMat = <<>>
  /\ observableVec = <<>>
  /\ weightVec = <<>>
  /\ estimatedTimeDelay = 0
  /\ satTimeF = 0
  /\ satTimePrev = 0
  /\ itrTime = 0
  /\ satRange = 0
  /\ satElevation = 0
  /\ solution = <<0, 0, 0, 0>>
  /\ result = [ok |-> FALSE, coord |-> <<0, 0, 0>>]
  /\ verdict = <<>>
  /\ passStart = [coord |-> <<0, 0, 0>>, clock |-> 0]

\* ---- std::string::substr ----
\* substr(pos, n) throws std::out_of_range when pos > size().
SubstrThrows(l, p) == p > l.len

\* line.substr(0, n) for n <= 3: the first n characters, fewer if the line is shorter.
Substr0(l, n) == SubSeq(l.head, 1, IF n < Len(l.head) THEN n ELSE Len(l.head))

\* ---- std::getline ----
\* The sentry fails when the stream is not good(): failbit is set and the
\* buffer keeps its content.  Otherwise the buffer is erased and a line is
\* extracted; reaching the end of the input sets eofbit, and failbit too when
\* nothing was extracted.
Getline(l) ==
  IF eofbit \/ failbit
    THEN [line |-> l, pos |-> pos, eofbit |-> eofbit, failbit |-> TRUE]
    ELSE IF pos <= Len(file.lines)
      THEN [line |-> [txt |-> file.lines[pos], no |-> pos], pos |-> pos + 1,
            eofbit |-> (pos = Len(file.lines) /\ ~file.term), failbit |-> FALSE]
      ELSE [line |-> [txt |-> Blank, no |-> 0], pos |-> pos, eofbit |-> TRUE, failbit |-> TRUE]

\* new ObservationRecord(): the five per-satellite sequences are empty.
\* A field read from a line is modelled by <<the line's number, the offset>>;
\* receiverTime is the number of the epoch header line.  src is not a field
\* of the record: it notes, for each retained entry, the number of the input
\* line the buffer held when the entry was pushed.
NewRecord ==
  [receiverTime |-> 0, statusFlag |-> 0, sumSat |-> 0, listSatPRN |-> <<>>, pseudorange_C1C |-> <<>>,
   pseudorange_C2P |-> <<>>, phase_L1C |-> <<>>, phase_L2P |-> <<>>, src |-> <<>>]

InitParse ==
  /\ SolverIdle
  /\ path \in PathSet
  /\ file \in FileSet
  /\ (path # "obs" => file = [lines |-> <<>>, term |-> TRUE])
  /\ pos = 1
  /\ eofbit = FALSE
  /\ failbit = FALSE
  /\ line = [txt |-> Blank, no |-> 0]
  /\ ppc = "open"
  /\ infoLines = <<>>
  /\ approxPosition = 0
  /\ record = NewRecord
  /\ i = 0
  /\ observationRecords = <<>>

\* Lines 8-13: the type check on the path and the opening of the file.
Open ==
  /\ ppc = "open"
  /\ ppc' = IF path = "obs" THEN "header" ELSE "done"
  /\ UNCHANGED <<path, file, pos, eofbit, failbit, line, infoLines,
                 approxPosition, record, i, observationRecords>>
  /\ UNCHANGED solverVars

\* Lines 17-31: one turn of the header loop.
HeaderLine ==
  /\ ppc = "header"
  /\ IF eofbit
       THEN /\ ppc' = "records"
            /\ UNCHANGED <<pos, eofbit, failbit, line, infoLines, approxPosition>>
       ELSE LET g == Getline(line) IN
            /\ line' = g.line
            /\ pos' = g.pos
            /\ eofbit' = g.eofbit
            /\ failbit' = g.failbit
            /\ infoLines' = Append(infoLines, g.line.no)
            /\ IF SubstrThrows(g.line.txt, 60)
                 THEN ppc' = "threw" /\ UNCHANGED approxPosition
                 ELSE IF g.line.txt.label = "END OF HEADER"
                   THEN ppc' = "records" /\ UNCHANGED approxPosition
                   ELSE /\ ppc' = "header"
                        /\ approxPosition' =
                             IF g.line.txt.label = "APPROX POSITION XYZ"
                               THEN g.line.no ELSE approxPosition
  /\ UNCHANGED <<path, file, record, i, observationRecords>>
  /\ UNCHANGED solverVars

\* Lines 34-50: the test of the record loop, the epoch header line and the
\* fields read from it.  The last field read is at offset 32.
EpochHeader ==
  /\ ppc = "records"
  /\ IF eofbit
       THEN /\ ppc' = "done"
            /\ UNCHANGED <<pos, eofbit, failbit, line, record, i>>
       ELSE LET g == Getline(line) IN
            /\ line' = g.line
            /\ pos' = g.pos
            /\ eofbit' = g.eofbit
            /\ failbit' = g.failbit
            /\ IF g.line.txt.len = 0
                 THEN ppc' = "done" /\ UNCHANGED <<record, i>>
                 ELSE IF SubstrThrows(g.line.txt, 32)
                   THEN /\ ppc' = "threw"
                        /\ record' = NewRecord
                        /\ UNCHANGED i
                   ELSE /\ ppc' = "sats"
                        /\ record' = [NewRecord EXCEPT !.receiverTime = g.line.no,
                                                       !.statusFlag = <<g.line.no, 29>>,
                                                       !.sumSat = g.line.txt.cnt]
                        /\ i' = 0
  /\ UNCHANGED <<path, file, infoLines, approxPosition, observationRecords>>
  /\ UNCHANGED solverVars

\* The for loop's test at line 52.
MoreSatLinesOffByOne(r, k) == k <= r.sumSat

MoreSatLines(r, k) == k < r.sumSat

\* Line 55: the line belongs to the supported system.
IsSupported(l) == Substr0(l, 1) = <<"G">>

\* Lines 58-62: the five push_backs, in order, each after its substr; the
\* result is the record and whether a substr threw.
PushSat(r, l) ==
  LET r1 == [r EXCEPT !.listSatPRN = Append(@, Substr0(l.txt, 3)), !.src = Append(@, l.no)]
      r2 == [r1 EXCEPT !.pseudorange_C1C = Append(@, <<l.no, 3>>)]
      r3 == [r2 EXCEPT !.pseudorange_C2P = Append(@, <<l.no, 19>>)]
      r4 == [r3 EXCEPT !.phase_L1C = Append(@, <<l.no, 51>>)]
      r5 == [r4 EXCEPT !.phase_L2P = Append(@, <<l.no, 67>>)]
  IN  IF SubstrThrows(l.txt, 3) THEN [threw |-> TRUE, rec |-> r1]
      ELSE IF SubstrThrows(l.txt, 19) THEN [threw |-> TRUE, rec |-> r2]
      ELSE IF SubstrThrows(l.txt, 51) THEN [threw |-> TRUE, rec |-> r3]
      ELSE IF SubstrThrows(l.txt, 67) THEN [threw |-> TRUE, rec |-> r4]
      ELSE [threw |-> FALSE, rec |-> r5]

\* Lines 52-65: one turn of the satellite-line loop, or its end and the
\* push of the record.
SatLine ==
  /\ ppc = "sats"
  /\ IF MoreSatLines(record, i)
       THEN LET g == Getline(line) IN
            /\ line' = g.line
            /\ pos' = g.pos
            /\ eofbit' = g.eofbit
            /\ failbit' = g.failbit
            /\ i' = i + 1
            /\ UNCHANGED observationRecords
            /\ IF IsSupported(g.line.txt)
                 THEN LET p == PushSat(record, g.line) IN
                      /\ record' = p.rec
                      /\ ppc' = IF p.threw THEN "threw" ELSE "sats"
                 ELSE UNCHANGED <<record, ppc>>
       ELSE /\ observationRecords' = Append(observationRecords, record)
            /\ ppc' = "records"
            /\ UNCHANGED <<pos, eofbit, failbit, line, record, i>>
  /\ UNCHANGED <<path, file, infoLines, approxPosition>>
  /\ UNCHANGED solverVars

NextParse == Open \/ HeaderLine \/ EpochHeader \/ SatLine

\* The reader's variables while the solver runs: nothing is being read.
ParserIdle ==
  /\ path = "other"
  /\ file = [lines |-> <<>>, term |-> TRUE]
  /\ pos = 1
  /\ eofbit = FALSE
  /\ failbit = FALSE
  /\ line = [txt |-> Blank, no |-> 0]
  /\ ppc = "done"
  /\ infoLines = <<>>
  /\ approxPosition = 0
  /\ record = NewRecord
  /\ i = 0
  /\ observationRecords = <<>>

SpecParse == InitParse /\ [][NextParse]_vars

(***************************************************************************)
(* PART 2.  ObservationRecord::computeReceiverPosition (observation.cpp    *)
(*          75-190)                                                        *)
(*                                                                         *)
(* Numbers are integers in fixed units.  Times are in units of half the    *)
(* iteration tolerance (0.5e-8 s), so that a difference below, at and      *)
(* above the tolerance exists; position corrections are in units of half   *)
(* the tolerance too (0.5e-8 m).  Ranges and pseudoranges are in the       *)
(* length unit the speed of light c is given in.  A non-finite double is   *)
(* the value NaN, with the IEEE rules: arithmetic on it yields NaN and     *)
(* every comparison with it is false.                                      *)
(***************************************************************************)

\* ---- bounds of the explored inputs ----
\* The most satellites an epoch record holds.
MaxSat == 5

\* The most satellites of a record that are not nominal (usable pseudorange,
\* ephemeris found, above the elevation cutoff).
MaxOdd == 2

\* The most satellites that are not nominal in a record a second call is
\* made on.
MaxOddRerun == 1

\* The outer passes (counted from the first) in which the geometry and the
\* solution are drawn freely; so are those of the last pass before the cap.
\* In the passes between, the ranges are RangeNear and the solution is fixed:
\* one that does not converge for the records followed to the cap, the zero
\* correction for the others.
FreePasses == 1

\* The inner iterations (counted from the first) in which the range of a
\* free satellite is drawn freely; so is that of the last iteration whose
\* range decides a convergence test.  In the iterations between, the range
\* alternates, so that the light-time iteration does not converge.
FreeIters == 2

\* ---- the constants of the program ----
\* ITER_TOL = 1E-8, in units of half of it.
ITER_TOL == 2

\* BLUNDER_PICKER = 0.5E6.
BLUNDER_PICKER == 500000

\* CUTOFF_ELEVATION = 10 degrees (the code holds it in radians).
CUTOFF_ELEVATION == 10

\* The outer loop runs while itrAdjust <= 100 and aborts at itrAdjust >= 100.
OuterCap == 100

\* The inner loop runs while itrTime <= 100 and aborts at itrTime >= 100.
InnerCap == 100

\* The least number of equations the solve is meant to accept.
MinSat == 4

\* estimatedTimeDelay = 0.075 s, in time units.
SeedDelay == 15000000

\* Reference::c, in length units per time unit.
c == 3

\* EPS, the threshold below which a pseudorange counts as missing.
EPS == 1

\* GpsWeekSecond(_receiverTime)._second for the epoch: 1 s into the week.
RecTimeF == 200000000

\* A non-finite double.
NaN == -2000000000

IsNaN(x) == x = NaN

FSub(a, b) == IF IsNaN(a) \/ IsNaN(b) THEN NaN ELSE a - b

FAdd(a, b) == IF IsNaN(a) \/ IsNaN(b) THEN NaN ELSE a + b

FDiv(a, d) == IF IsNaN(a) THEN NaN ELSE a \div d

FAbs(x) == IF IsNaN(x) THEN NaN ELSE IF x < 0 THEN 0 - x ELSE x

FLeq(a, b) == ~IsNaN(a) /\ ~IsNaN(b) /\ a <= b

FLt(a, b) == ~IsNaN(a) /\ ~IsNaN(b) /\ a < b

FGt(a, b) == ~IsNaN(a) /\ ~IsNaN(b) /\ a > b

\* ---- the inputs ----
\* A navigation record, as findCloseRecord returns it: the clock polynomial
\* and its reference time; found = FALSE stands for the null pointer.
NavFound == [found |-> TRUE, a0 |-> 1, a1 |-> 0, a2 |-> 0, toc |-> RecTimeF]

NavNone == [found |-> FALSE, a0 |-> 0, a1 |-> 0, a2 |-> 0, toc |-> 0]

\* The two geometric ranges the satellite state model yields: the light
\* times they give differ by more than the tolerance from each other, and
\* the nearer one by less than the tolerance from the seed.
RangeNear == c * (SeedDelay + 1)

RangeFar == c * (SeedDelay + 5)

\* The pseudoranges of a record: missing (0), consistent with the geometry,
\* and off by exactly BLUNDER_PICKER from the farther range.
PrMissing == 0

PrGood == c * SeedDelay

PrOff == RangeFar + BLUNDER_PICKER

\* A satellite of the record: its C1C pseudorange, what findCloseRecord
\* returns for it, whether it stands at or below the elevation cutoff, and
\* whether the ranges the satellite state model yields for it vary from one
\* evaluation to the next (free) or are RangeNear throughout.
Nominal == [pr |-> PrGood, nav |-> NavFound, low |-> FALSE, free |-> FALSE]

OddSet ==
  { [pr |-> PrOff, nav |-> NavFound, low |-> FALSE, free |-> TRUE],
    [pr |-> PrGood, nav |-> NavFound, low |-> TRUE, free |-> FALSE],
    [pr |-> PrMissing, nav |-> NavFound, low |-> FALSE, free |-> FALSE],
    [pr |-> PrMissing, nav |-> NavNone, low |-> FALSE, free |-> FALSE],
    [pr |-> PrGood, nav |-> NavNone, low |-> FALSE, free |-> FALSE] }

RecordSet ==
  { r \in UNION {[1..n -> {Nominal} \cup OddSet] : n \in 0..MaxSat} :
      Cardinality({k \in 1..Len(r) : r[k] # Nominal}) <= MaxOdd }

\* The records a second call is made on.
RerunRecordSet ==
  { r \in RecordSet : Cardinality({k \in 1..Len(r) : r[k] # Nominal}) <= MaxOddRerun }

\* The records whose runs are followed to the cap of the outer loop.
DeepRecord(r) == Len(r) = MinSat /\ \A k \in 1..Len(r) : r[k] = Nominal

FreePass(p) == p < FreePasses \/ p = OuterCap - 1

FreeIter(t) == t < FreeIters \/ t = InnerCap - 2

\* ---- what the code outside observation.cpp returns ----
\* |satCoord - recCoord| for the satCoord of lines 125-126.
RangeChoices(s) ==
  IF IsNaN(recCoord[1]) THEN {NaN}
  ELSE IF ~s.free \/ ~FreePass(itrAdjust) THEN {RangeNear}
  ELSE IF FreeIter(itrTime) THEN {RangeNear, RangeFar}
  ELSE {RangeNear, RangeFar} \ {satRange}

\* The elevation of lines 134-135, in degrees.
ElevationChoices(s) ==
  IF s.low THEN {CUTOFF_ELEVATION - 1, CUTOFF_ELEVATION} ELSE {CUTOFF_ELEVATION + 1}

\* pow(sin(satElevation), 2), in thousandths.
Sin2(e) == CASE e = 9 -> 24 [] e = 10 -> 30 [] e = 11 -> 36 [] OTHER -> 1000

NaNSolution == <<NaN, NaN, NaN, NaN>>

FiniteSolutions ==
  { <<d[1], d[2], d[3], c * t>> :
      d \in {<<0, 0, 0>>, <<1, 1, 1>>, <<ITER_TOL, 0, 0>>},
      t \in {0, 1, RecTimeF - SeedDelay} }

\* The result of line 178 for a system of k equations.  The normal matrix of
\* no equation is the zero matrix, whose inverse is not finite; that of
\* fewer than four equations is singular, and of four or more may be: the
\* result is then whatever the rounding of the inverse leaves.
SolutionChoices(k) ==
  IF k = 0 THEN {NaNSolution}
  ELSE IF FreePass(itrAdjust) THEN FiniteSolutions \cup {NaNSolution}
  ELSE IF DeepRecord(rec) THEN {<<ITER_TOL, 0, 0, 0>>}
  ELSE {<<0, 0, 0, 0>>}

Null == [ok |-> FALSE, coord |-> <<0, 0, 0>>]

\* ---- the entry of the function (lines 75-82) ----
\* recClockError at entry.
EntryClockCarried(prev) == prev

EntryClock(prev) == 0

Enter(r, approx, prevClock) ==
  /\ rec' = r
  /\ approxRecCoord' = approx
  /\ pc' = "pass"
  /\ recCoord' = approx
  /\ recClockError' = EntryClock(prevClock)
  /\ itrAdjust' = 0
  /\ satIndex' = 0
  /\ countDisposed' = 0
  /\ designMat' = <<>>
  /\ observableVec' = <<>>
  /\ weightVec' = <<>>
  /\ estimatedTimeDelay' = 0
  /\ satTimeF' = 0
  /\ satTimePrev' = 0
  /\ itrTime' = 0
  /\ satRange' = 0
  /\ satElevation' = 0
  /\ solution' = <<0, 0, 0, 0>>
  /\ result' = Null
  /\ verdict' = <<>>
  /\ passStart' = [coord |-> approx, clock |-> EntryClock(prevClock)]

Init ==
  /\ ParserIdle
  /\ rec \in RecordSet
  /\ approxRecCoord = <<0, 0, 0>>
  /\ run = 1
  /\ firstRun = [coord |-> <<0, 0, 0>>, clock |-> 0]
  /\ pc = "pass"
  /\ recCoord = approxRecCoord
  /\ recClockError = EntryClock(0)
  /\ itrAdjust = 0
  /\ satIndex = 0
  /\ countDisposed = 0
  /\ designMat = <<>>
  /\ observableVec = <<>>
  /\ weightVec = <<>>
  /\ estimatedTimeDelay = 0
  /\ satTimeF = 0
  /\ satTimePrev = 0
  /\ itrTime = 0
  /\ satRange = 0
  /\ satElevation = 0
  /\ solution = <<0, 0, 0, 0>>
  /\ result = Null
  /\ verdict = <<>>
  /\ passStart = [coord |-> approxRecCoord, clock |-> EntryClock(0)]


\* ---- the linear system ----
\* MatrixXd(n, 4) and VectorXd(n) are not initialised: an entry not yet
\* written holds no value of the pass.
UnwrittenRow == [sat |-> 0, rho |-> 0, one |-> 0]

Unwritten == [set |-> FALSE, v |-> 0]

\* Lines 151-153 and 158: the direction cosines from the satellite at index
\* j (counted from 1) at range rho, and the constant 1.
DesignRow(j, rho) == [sat |-> j, rho |-> rho, one |-> 1]

\* Lines 155-156: the satellite clock polynomial at transmission time t.
SatClockError(nav, t) ==
  nav.a0 + nav.a1 * (t - nav.toc) + nav.a2 * (t - nav.toc) * (t - nav.toc)

\* Line 159.
Observable(s, rho, t) == [set |-> TRUE, v |-> s.pr - rho + c * SatClockError(s.nav, t)]

\* Line 160.
Weight(e) == [set |-> TRUE, v |-> Sin2(e)]

\* ---- the tests of the code ----
\* Line 86.
OuterCapLate(k) == k > OuterCap

OuterCapReached(k) == k >= OuterCap

\* Line 120.
InnerCapReached(t) == t >= InnerCap

\* Line 98.
PseudorangeMissing(s) == s.pr < EPS

\* Lines 105-106: findCloseRecord returned the null pointer.
LookupNeverFails(s) == FALSE

LookupFailed(s) == ~s.nav.found

\* Line 124.
TransmissionTime(recTime, clock, delay) == FSub(FSub(recTime, clock), delay)

\* Line 128.
InnerConverged(t, prev) == FLeq(FAbs(FSub(t, prev)), ITER_TOL)

\* Line 136.
ElevationRejectsBelow(e) == e < CUTOFF_ELEVATION

ElevationRejects(e) == e <= CUTOFF_ELEVATION

\* Line 144.
Blunder(rho, pr) == FGt(FAbs(FSub(rho, pr)), BLUNDER_PICKER)

\* Lines 158-160: the row an accepted satellite is written to (from 0).
RowIndexUnshifted(index, disposed) == index

RowIndex(index, disposed) == index - disposed

\* Line 165.
Starved(n, disposed) == n - disposed < MinSat

\* Lines 168-174: the first n - disposed entries are kept.
Compact(m, n, disposed) == SubSeq(m, 1, n - disposed)

\* Lines 179-181.
UpdateCoord(coord, sol) ==
  <<FAdd(coord[1], sol[1]), FAdd(coord[2], sol[2]), FAdd(coord[3], sol[3])>>

\* Line 182.
UpdateClockAccumulated(clock, sol) == FAdd(clock, FDiv(sol[4], c))

UpdateClock(clock, sol) == FDiv(sol[4], c)

\* Line 185: |solution.block<3,1>(0,0)| < ITER_TOL, compared by the squares.
Converged(sol) ==
  /\ ~IsNaN(sol[1])
  /\ sol[1] * sol[1] + sol[2] * sol[2] + sol[3] * sol[3] < ITER_TOL * ITER_TOL

\* ---- the steps of the function ----
solverInputs == <<rec, approxRecCoord, run, firstRun>>

Return(r) ==
  /\ result' = r
  /\ pc' = "done"

\* Lines 84-93: the head of the outer loop and the fresh system of the pass.
Pass ==
  /\ pc = "pass"
  /\ IF ~(itrAdjust <= OuterCap)
       THEN /\ Return([ok |-> TRUE, coord |-> recCoord])
            /\ UNCHANGED <<designMat, observableVec, weightVec, countDisposed,
                           satIndex, verdict, passStart>>
       ELSE IF OuterCapReached(itrAdjust)
         THEN /\ Return(Null)
              /\ UNCHANGED <<designMat, observableVec, weightVec, countDisposed,
                             satIndex, verdict, passStart>>
         ELSE /\ designMat' = [k \in 1..Len(rec) |-> UnwrittenRow]
              /\ observableVec' = [k \in 1..Len(rec) |-> Unwritten]
              /\ weightVec' = [k \in 1..Len(rec) |-> Unwritten]
              /\ countDisposed' = 0
              /\ satIndex' = 0
              /\ verdict' = <<>>
              /\ passStart' = [coord |-> recCoord, clock |-> recClockError]
              /\ pc' = "sat"
              /\ UNCHANGED result
  /\ UNCHANGED <<recCoord, recClockError, itrAdjust, estimatedTimeDelay, satTimeF,
                 satTimePrev, itrTime, satRange, satElevation, solution>>
  /\ UNCHANGED solverInputs
  /\ UNCHANGED parserVars

\* Lines 95-117: the head of the satellite loop, the missing-pseudorange
\* filter, the ephemeris lookup and the seed of the light-time iteration.
Sat ==
  /\ pc = "sat"
  /\ IF ~(satIndex < Len(rec))
       THEN /\ pc' = "solve"
            /\ UNCHANGED <<countDisposed, satIndex, verdict, estimatedTimeDelay,
                           satTimeF, itrTime, result>>
       ELSE LET s == rec[satIndex + 1] IN
            IF PseudorangeMissing(s)
              THEN /\ countDisposed' = countDisposed + 1
                   /\ satIndex' = satIndex + 1
                   /\ verdict' = Append(verdict,
                        [why |-> "missing", elev |-> 0, rho |-> 0, time |-> 0, met |-> TRUE])
                   /\ UNCHANGED <<pc, estimatedTimeDelay, satTimeF, itrTime, result>>
              ELSE IF LookupFailed(s)
                THEN /\ Return(Null)
                     /\ UNCHANGED <<countDisposed, satIndex, verdict,
                                    estimatedTimeDelay, satTimeF, itrTime>>
                ELSE /\ estimatedTimeDelay' = SeedDelay
                     /\ satTimeF' = 0
                     /\ itrTime' = 0
                     /\ pc' = "inner"
                     /\ UNCHANGED <<countDisposed, satIndex, verdict, result>>
  /\ UNCHANGED <<recCoord, recClockError, itrAdjust, designMat, observableVec,
                 weightVec, satTimePrev, satRange, satElevation, solution, passStart>>
  /\ UNCHANGED solverInputs
  /\ UNCHANGED parserVars

\* Lines 118-132: one turn of the light-time iteration.
Inner ==
  /\ pc = "inner"
  /\ IF ~(itrTime <= InnerCap)
       THEN /\ pc' = "filter"
            /\ UNCHANGED <<satTimePrev, satTimeF, satRange, estimatedTimeDelay,
                           itrTime, result>>
       ELSE IF InnerCapReached(itrTime)
         THEN /\ Return(Null)
              /\ UNCHANGED <<satTimePrev, satTimeF, satRange, estimatedTimeDelay, itrTime>>
         ELSE \E r \in RangeChoices(rec[satIndex + 1]) :
              /\ satTimePrev' = satTimeF
              /\ satTimeF' = TransmissionTime(RecTimeF, recClockError, estimatedTimeDelay)
              /\ satRange' = r
              /\ IF InnerConverged(satTimeF', satTimePrev')
                   THEN /\ pc' = "filter"
                        /\ UNCHANGED <<estimatedTimeDelay, itrTime>>
                   ELSE /\ estimatedTimeDelay' = FDiv(r, c)
                        /\ itrTime' = itrTime + 1
                        /\ UNCHANGED pc
              /\ UNCHANGED result
  /\ UNCHANGED <<recCoord, recClockError, itrAdjust, satIndex, countDisposed,
                 designMat, observableVec, weightVec, satElevation, solution,
                 verdict, passStart>>
  /\ UNCHANGED solverInputs
  /\ UNCHANGED parserVars

\* Lines 134-161: the elevation filter, the blunder filter and the row of
\* an accepted satellite.
Filter ==
  /\ pc = "filter"
  /\ LET s == rec[satIndex + 1]
         met == InnerConverged(satTimeF, satTimePrev) /\ itrTime < InnerCap
     IN  \E e \in ElevationChoices(s) :
         /\ satElevation' = e
         /\ IF ElevationRejects(e)
              THEN /\ countDisposed' = countDisposed + 1
                   /\ verdict' = Append(verdict,
                        [why |-> "low", elev |-> e, rho |-> satRange, time |-> satTimeF, met |-> met])
                   /\ UNCHANGED <<designMat, observableVec, weightVec>>
              ELSE IF Blunder(satRange, s.pr)
                THEN /\ countDisposed' = countDisposed + 1
                     /\ verdict' = Append(verdict,
                          [why |-> "blunder", elev |-> e, rho |-> satRange, time |-> satTimeF, met |-> met])
                     /\ UNCHANGED <<designMat, observableVec, weightVec>>
                ELSE LET k == RowIndex(satIndex, countDisposed) + 1 IN
                     /\ designMat' = [designMat EXCEPT ![k] = DesignRow(satIndex + 1, satRange)]
                     /\ observableVec' = [observableVec EXCEPT ![k] = Observable(s, satRange, satTimeF)]
                     /\ weightVec' = [weightVec EXCEPT ![k] = Weight(e)]
                     /\ verdict' = Append(verdict,
                          [why |-> "accepted", elev |-> e, rho |-> satRange, time |-> satTimeF, met |-> met])
                     /\ UNCHANGED countDisposed
  /\ satIndex' = satIndex + 1
  /\ pc' = "sat"
  /\ UNCHANGED <<recCoord, recClockError, itrAdjust, estimatedTimeDelay, satTimeF,
                 satTimePrev, itrTime, satRange, solution, result, passStart>>
  /\ UNCHANGED solverInputs
  /\ UNCHANGED parserVars

\* Lines 163-186: the starvation test, the compaction, the solve, the update
\* of the estimate and the convergence test.
Solve ==
  /\ pc = "solve"
  /\ IF countDisposed > 0 /\ Starved(Len(rec), countDisposed)
       THEN /\ Return(Null)
            /\ UNCHANGED <<designMat, observableVec, weightVec, solution, recCoord,
                           recClockError, itrAdjust>>
       ELSE /\ designMat' = IF countDisposed > 0
                              THEN Compact(designMat, Len(rec), countDisposed)
                              ELSE designMat
            /\ observableVec' = IF countDisposed > 0
                                  THEN Compact(observableVec, Len(rec), countDisposed)
                                  ELSE observableVec
            /\ weightVec' = IF countDisposed > 0
                              THEN Compact(weightVec, Len(rec), countDisposed)
                              ELSE weightVec
            /\ \E sol \in SolutionChoices(Len(designMat')) :
                 /\ solution' = sol
                 /\ recCoord' = UpdateCoord(recCoord, sol)
                 /\ recClockError' = UpdateClock(recClockError, sol)
                 /\ IF Converged(sol)
                      THEN /\ Return([ok |-> TRUE, coord |-> recCoord'])
                           /\ UNCHANGED itrAdjust
                      ELSE /\ itrAdjust' = itrAdjust + 1
                           /\ pc' = "pass"
                           /\ UNCHANGED result
  /\ UNCHANGED <<satIndex, countDisposed, estimatedTimeDelay, satTimeF, satTimePrev,
                 itrTime, satRange, satElevation, verdict, passStart>>
  /\ UNCHANGED solverInputs
  /\ UNCHANGED parserVars

\* The second call: computeReceiverPosition on the same record and ephemeris,
\* with the coordinates the first call returned as the approximate coordinate.
Recall ==
  /\ pc = "done"
  /\ run = 1
  /\ result.ok
  /\ run' = 2
  /\ firstRun' = [coord |-> recCoord, clock |-> recClockError]
  /\ Enter(rec, result.coord, recClockError)
  /\ UNCHANGED parserVars

Next == Pass \/ Sat \/ Inner \/ Filter \/ Solve

\* One call of computeReceiverPosition on a record.
Spec == Init /\ [][Next]_vars

\* A call on a record, and when it returned coordinates, a second call on
\* them.
InitRerun == Init /\ rec \in RerunRecordSet

NextRerun == Next \/ Recall

SpecRerun == InitRerun /\ [][NextRerun]_vars


(***************************************************************************)
(* PART 3.  The properties                                                 *)
(***************************************************************************)

\* ---- definitions the properties share ----
\* A pass has assembled its system and line 178 has solved it: the system
\* variables hold what was handed to the solve.
Solved ==
  \/ pc = "pass" /\ itrAdjust > 0
  \/ pc = "done" /\ result.ok
  \/ pc = "done" /\ ~result.ok /\ itrAdjust >= OuterCap

\* The call is inside a pass.
InPass == pc \in {"sat", "inner", "filter", "solve"}

\* Every satellite of the record went through the filters of the pass.
PassComplete == Len(verdict) = Len(rec)

\* The satellites the pass accepted, in the order of the record.
RECURSIVE AcceptedUpTo(_)
AcceptedUpTo(k) ==
  IF k = 0 THEN <<>>
  ELSE IF verdict[k].why = "accepted"
    THEN Append(AcceptedUpTo(k - 1), k)
    ELSE AcceptedUpTo(k - 1)

Accepted == AcceptedUpTo(Len(verdict))

\* The satellite at index k reached the elevation filter and was at or
\* below the cutoff.
LowElevation(k) == verdict[k].why # "missing" /\ verdict[k].elev <= CUTOFF_ELEVATION

Max0(n) == IF n < 0 THEN 0 ELSE n

\* ---- C1 ----
\* C1 (as claimed): when the call has returned and the last pass went through
\* every satellite and accepted fewer than 4 of them, the call returned
\* failure, never coordinates.
C1_StarvedNeverAnswers ==
  (pc = "done" /\ PassComplete /\ Len(Accepted) < MinSat) => ~result.ok

\* ---- C2 ----
\* C2 (as claimed): when some satellite of the record has no navigation
\* record, the call returns failure.
C2_AnyMissingEphemerisFails ==
  (pc = "done" /\ \E k \in 1..Len(rec) : ~rec[k].nav.found) => ~result.ok

\* C2 (amended): when some satellite of the record with a usable pseudorange
\* (not below EPS) has no navigation record, the call returns failure,
\* whatever the other satellites are.
C2_UsableMissingEphemerisFails ==
  (pc = "done" /\ \E k \in 1..Len(rec) : rec[k].pr >= EPS /\ ~rec[k].nav.found)
    => ~result.ok

\* A record of five satellites, four of them nominal and the last one usable
\* but without navigation record: the call has returned.
C2_Witness ==
  /\ pc = "done"
  /\ Len(rec) = MinSat + 1
  /\ \A k \in 1..MinSat : rec[k] = Nominal
  /\ rec[MinSat + 1].pr >= EPS
  /\ ~rec[MinSat + 1].nav.found
  /\ ~result.ok

\* ---- C3 ----
\* C3: the outer loop never goes past 100 passes nor an inner loop past 100
\* iterations, and coordinates are returned only when the correction of the
\* last pass is below the tolerance, that pass is one of the 100, and every
\* light-time iteration of it met its tolerance within its 100 iterations.
C3_CapsAreHardAborts ==
  /\ itrAdjust <= OuterCap
  /\ itrTime <= InnerCap
  /\ (pc = "done" /\ result.ok) =>
       /\ Converged(solution)
       /\ itrAdjust < OuterCap
       /\ PassComplete
       /\ \A k \in 1..Len(verdict) : verdict[k].met

\* The 100th pass did not meet the tolerance and the call returned failure.
C3_Witness ==
  /\ pc = "done"
  /\ ~result.ok
  /\ itrAdjust = OuterCap
  /\ ~Converged(solution)

\* ---- C4 ----
\* C4: in the system handed to the solve, no row comes from a satellite whose
\* elevation was at or below the cutoff, and every residual and weight of
\* the system is the one of the satellite of its row, which was accepted
\* with an elevation above the cutoff.
C4_LowElevationNotInSystem ==
  Solved =>
    /\ \A k \in 1..Len(verdict) : LowElevation(k) =>
         \A r \in 1..Len(designMat) : designMat[r].sat # k
    /\ Len(observableVec) = Len(designMat)
    /\ Len(weightVec) = Len(designMat)
    /\ \A r \in 1..Len(designMat) :
         LET k == designMat[r].sat IN
         /\ k \in 1..Len(verdict)
         /\ verdict[k].elev > CUTOFF_ELEVATION
         /\ weightVec[r] = Weight(verdict[k].elev)
         /\ observableVec[r] = Observable(rec[k], verdict[k].rho, verdict[k].time)

\* A system of at least 4 rows was solved in a pass that rejected a satellite
\* standing exactly at the cutoff whose pseudorange is the consistent one.
C4_Witness ==
  /\ Solved
  /\ Len(designMat) >= MinSat
  /\ \E k \in 1..Len(verdict) :
       /\ verdict[k].why = "low"
       /\ verdict[k].elev = CUTOFF_ELEVATION
       /\ rec[k].pr = PrGood

\* ---- C5 ----
\* C5: when a pass accepts at least 4 satellites, the system handed to the
\* solve is the one assembled from the accepted satellites alone: row r is
\* the row of the r-th accepted satellite, in the order of the record.
C5_SystemIsFilteredRecord ==
  (Solved /\ Len(Accepted) >= MinSat) =>
    /\ designMat =
         [r \in 1..Len(Accepted) |-> DesignRow(Accepted[r], verdict[Accepted[r]].rho)]
    /\ observableVec =
         [r \in 1..Len(Accepted) |->
            Observable(rec[Accepted[r]], verdict[Accepted[r]].rho, verdict[Accepted[r]].time)]
    /\ weightVec =
         [r \in 1..Len(Accepted) |-> Weight(verdict[Accepted[r]].elev)]

\* A system of at least 4 accepted satellites was solved in a pass that
\* rejected a blunder standing before an accepted satellite.
C5_Witness ==
  /\ Solved
  /\ Len(Accepted) >= MinSat
  /\ \E k \in 1..Len(verdict) : \E j \in 1..Len(verdict) :
       k < j /\ verdict[k].why = "blunder" /\ verdict[j].why = "accepted"

\* ---- C6 ----
\* C6 (as claimed): the second run starts from the state the first run
\* converged to, and it succeeds after exactly one pass.
C6_RerunConvergesAtOnce ==
  run = 2 =>
    /\ (pc = "pass" /\ itrAdjust = 0) =>
         (recCoord = firstRun.coord /\ recClockError = firstRun.clock)
    /\ pc = "done" => (result.ok /\ itrAdjust = 0)

\* C6 (amended): the second run starts from the position the first run
\* returned, taken as the approximate coordinate too, and from the clock
\* offset 0, not from the clock offset the first run ended with; when it
\* succeeds after exactly one pass, the correction of that pass, computed
\* from that state, is below the tolerance.
C6_RerunStartsFromResultAndZeroClock ==
  run = 2 =>
    /\ (itrAdjust = 0 /\ (pc = "pass" \/ InPass)) =>
         /\ recCoord = firstRun.coord
         /\ approxRecCoord = firstRun.coord
         /\ recClockError = 0
    /\ (pc = "done" /\ result.ok /\ itrAdjust = 0) =>
         /\ passStart = [coord |-> firstRun.coord, clock |-> 0]
         /\ Converged(solution)

\* The first run ended with a clock offset that is not 0, and the second
\* run did not succeed after one pass.
C6_Witness ==
  /\ run = 2
  /\ firstRun.clock # 0
  /\ pc = "done"
  /\ ~(result.ok /\ itrAdjust = 0)

\* The violation of C6 as claimed does not need a first run that succeeded
\* on fewer than 4 satellites: the same statement for the records of at
\* least 4 satellites, which TLC finds violated too.
C6_RerunConvergesAtOnce_FourSatellites ==
  Len(rec) >= MinSat => C6_RerunConvergesAtOnce

\* ---- C7 ----
\* C7 (as claimed): in every record the constructor produced, the five
\* per-satellite sequences have the same length, every retained identifier
\* begins with G, and the retained count is at most the declared count.
C7_RecordsWellFormed ==
  \A n \in 1..Len(observationRecords) :
    LET r == observationRecords[n] IN
    /\ Len(r.pseudorange_C1C) = Len(r.listSatPRN)
    /\ Len(r.pseudorange_C2P) = Len(r.listSatPRN)
    /\ Len(r.phase_L1C) = Len(r.listSatPRN)
    /\ Len(r.phase_L2P) = Len(r.listSatPRN)
    /\ \A k \in 1..Len(r.listSatPRN) :
         Len(r.listSatPRN[k]) >= 1 /\ r.listSatPRN[k][1] = "G"
    /\ Len(r.listSatPRN) <= r.sumSat

\* C7 (amended): as claimed, with the retained count at most the declared
\* count when that is not negative, and 0 when it is.
C7_RecordsWellFormedNonNegative ==
  \A n \in 1..Len(observationRecords) :
    LET r == observationRecords[n] IN
    /\ Len(r.pseudorange_C1C) = Len(r.listSatPRN)
    /\ Len(r.pseudorange_C2P) = Len(r.listSatPRN)
    /\ Len(r.phase_L1C) = Len(r.listSatPRN)
    /\ Len(r.phase_L2P) = Len(r.listSatPRN)
    /\ \A k \in 1..Len(r.listSatPRN) :
         Len(r.listSatPRN[k]) >= 1 /\ r.listSatPRN[k][1] = "G"
    /\ Len(r.listSatPRN) <= Max0(r.sumSat)

\* A record was produced that retains a satellite and skipped a line: it
\* holds fewer satellites than its header declares.
C7_Witness ==
  \E n \in 1..Len(observationRecords) :
    /\ Len(observationRecords[n].listSatPRN) >= 1
    /\ Len(observationRecords[n].listSatPRN) < observationRecords[n].sumSat

\* ---- C8 ----
\* The lines of the input among the declared-count lines that follow the
\* epoch header at line h, that belong to the supported system, in order.
RECURSIVE SupportedAfter(_, _)
SupportedAfter(h, n) ==
  IF n <= 0 THEN <<>>
  ELSE IF h + n <= Len(file.lines) /\ IsSupported(file.lines[h + n])
    THEN Append(SupportedAfter(h, n - 1), h + n)
    ELSE SupportedAfter(h, n - 1)

\* C8 (as claimed): the entries of every record produced come from exactly
\* the supported-system lines among the declared-count lines after its
\* header, in input order, one entry per line; and the reading of records
\* ends at a blank line in epoch-header position or at the end of the input.
C8_RetainedAreTheSupportedLines ==
  /\ \A n \in 1..Len(observationRecords) :
       LET r == observationRecords[n] IN
       r.src = SupportedAfter(r.receiverTime, r.sumSat)
  /\ (ppc = "done" /\ path = "obs") => (eofbit \/ line.txt = Blank)

\* ---- C9 ----
\* C9: after the solve of a pass the position is the position the pass
\* began with plus the first three components of the solution and the clock
\* offset is the fourth component divided by c, whatever it was; the clock
\* offset is 0 throughout the first pass of a call; in a later pass it is the
\* one the pass before produced, and the transmission time an inner loop
\* ends with is the receiver time less that offset less the delay.
C9_StateUpdate ==
  /\ Solved =>
       /\ recCoord = UpdateCoord(passStart.coord, solution)
       /\ recClockError = FDiv(solution[4], c)
  /\ (itrAdjust = 0 /\ (pc = "pass" \/ InPass)) => recClockError = 0
  /\ (itrAdjust > 0 /\ InPass) =>
       /\ recClockError = FDiv(solution[4], c)
       /\ recClockError = passStart.clock
  /\ pc = "filter" =>
       satTimeF = FSub(FSub(RecTimeF, recClockError), estimatedTimeDelay)

\* A pass that began with a clock offset other than 0 was solved and left
\* another clock offset.
C9_Witness ==
  /\ pc = "pass"
  /\ itrAdjust >= 2
  /\ passStart.clock # 0
  /\ ~IsNaN(recClockError)
  /\ recClockError # passStart.clock

\* ---- C10 ----
\* C10 (as claimed): a light-time iteration that ended successfully has
\* re-estimated the delay at least once, and its last transmission time
\* differs by less than the tolerance from the one of the iteration before.
C10_DelayReestimatedBeforeAccept ==
  pc = "filter" =>
    /\ itrTime >= 1
    /\ FLt(FAbs(FSub(satTimeF, satTimePrev)), ITER_TOL)


\* The violation of C10 as claimed does not need a pass that solved fewer
\* than 4 equations: the same statement for the records of at least 4
\* satellites, which TLC finds violated too.
C10_DelayReestimatedBeforeAccept_FourSatellites ==
  Len(rec) >= MinSat => C10_DelayReestimatedBeforeAccept

====
